---- MODULE Spec2Model ----
(***************************************************************************)
(* Model of xinfer.models.BaseModel: construction with dtype validation,   *)
(* the latency bookkeeping (track_inference_time, update_inference_count)  *)
(* and parse_images.                                                       *)
(*                                                                         *)
(* Floats are modelled as exact rationals <<numerator, denominator>> in    *)
(* lowest terms with a positive denominator.  time.perf_counter() is a     *)
(* monotonic clock that advances in ticks of 1/TicksPerSecond seconds.     *)
(***************************************************************************)
EXTENDS Integers, Sequences, FiniteSets, TLC

VARIABLES
    self,        \* the BaseModel instance the caller holds, or NoInstance
    now,         \* the monotonic clock, in ticks
    frames,      \* the open timed regions, innermost last
    result,      \* what the last call handed to its caller
    accessed,    \* the references parse_images opened, in order
    call,        \* the step just taken, with its arguments
    callPc,      \* where the caller is in the region-then-update protocol
    sumCounts,   \* history: sum of the counts passed to update_inference_count
    sumElapsed   \* history: ticks the caller saw pass inside closed regions

vars == <<self, now, frames, result, accessed, call, callPc, sumCounts, sumElapsed>>

(* ------------------------------ bounds --------------------------------- *)

\* perf_counter ticks per second (one tick is 10 ms)
TicksPerSecond == 100
\* the clock stops advancing after this many ticks
MaxClock == 3
\* how many timed regions may be open (nested) at once
MaxDepth == 2
\* update_inference_count is called with a count in -MaxCount .. MaxCount
MaxCount == 2
\* |num_inferences| is kept within this bound
MaxInferences == 3
\* longest list handed to parse_images
MaxLen == 2

(* --------------------------- float arithmetic -------------------------- *)

Abs(x) == IF x < 0 THEN -x ELSE x

RECURSIVE GCD(_, _)
GCD(a, b) == IF b = 0 THEN a ELSE GCD(b, a % b)

\* the rational n/d (d # 0) in lowest terms, denominator positive
Rat(n, d) ==
    LET g == GCD(Abs(n), Abs(d))
        s == IF d < 0 THEN -1 ELSE 1
    IN  <<(s * n) \div g, (s * d) \div g>>

Zero == Rat(0, 1)

RatAdd(x, y) == Rat(x[1] * y[2] + y[1] * x[2], x[2] * y[2])

RatSub(x, y) == Rat(x[1] * y[2] - y[1] * x[2], x[2] * y[2])

RatMulInt(x, k) == Rat(x[1] * k, x[2])

RatDivInt(x, k) == Rat(x[1], x[2] * k)

RatLeq(x, y) == x[1] * y[2] <= y[1] * x[2]

(* ------------------------------ __init__ ------------------------------- *)

NoInstance == [constructed |-> FALSE]

dtype_map ==
    [d \in {"float32", "float16", "bfloat16"} |->
        CASE d = "float32" -> "torch.float32"
          [] d = "float16" -> "torch.float16"
          [] d = "bfloat16" -> "torch.bfloat16"]

\* the strings offered as dtype
DtypeStrings == {"float32", "float16", "bfloat16", "float64", "int8", "Float32", ""}

Returned(v) == [outcome |-> "returned", value |-> v]

Raised(e) == [outcome |-> e, value |-> <<>>]

\* mutant: the dtype is looked up without the membership test
BaseModel_init_unvalidated(model_id, device, dtype) ==
    [self |-> [constructed |-> TRUE, model_id |-> model_id, device |-> device,
               dtype |-> IF dtype \in DOMAIN dtype_map THEN dtype_map[dtype] ELSE dtype,
               num_inferences |-> 0,
               total_inference_time |-> Zero, average_latency |-> Zero],
     result |-> Returned(<<>>)]

\* BaseModel(model_id, device, dtype): the instance the caller gets, or the error
BaseModel_init(model_id, device, dtype) ==
    IF dtype \notin DOMAIN dtype_map
    THEN [self |-> NoInstance, result |-> Raised("ValueError")]
    ELSE [self |-> [constructed |-> TRUE, model_id |-> model_id, device |-> device,
                    dtype |-> dtype_map[dtype], num_inferences |-> 0,
                    total_inference_time |-> Zero, average_latency |-> Zero],
          result |-> Returned(<<>>)]

(* ------------------------- latency bookkeeping ------------------------- *)

\* time.perf_counter(), in seconds
perf_counter == Rat(now, TicksPerSecond)

\* mutant: no try/finally, an exception of the body skips the bookkeeping
track_inference_time_no_finally(obj, start_time, end_time, raised) ==
    [self |-> IF raised THEN obj
              ELSE [obj EXCEPT !.total_inference_time =
                        RatAdd(@, RatMulInt(RatSub(end_time, start_time), 1000))],
     raises |-> raised]

\* mutant: the region counts one inference itself
track_inference_time_counting(obj, start_time, end_time, raised) ==
    [self |-> [obj EXCEPT !.total_inference_time =
                   RatAdd(@, RatMulInt(RatSub(end_time, start_time), 1000)),
                          !.num_inferences = @ + 1],
     raises |-> raised]

\* mutant: start_time - end_time
track_inference_time_swapped(obj, start_time, end_time, raised) ==
    [self |-> [obj EXCEPT !.total_inference_time =
                   RatAdd(@, RatMulInt(RatSub(start_time, end_time), 1000))],
     raises |-> raised]

\* the finally block of track_inference_time: start_time was read on entry,
\* end_time is read now; raised tells whether the body raised into the yield
track_inference_time(obj, start_time, end_time, raised) ==
    [self |-> [obj EXCEPT !.total_inference_time =
                   RatAdd(@, RatMulInt(RatSub(end_time, start_time), 1000))],
     raises |-> raised]

\* mutant: the average is not recomputed
update_inference_count_no_recompute(obj, count) ==
    [obj EXCEPT !.num_inferences = @ + count]

\* mutant: = instead of +=
update_inference_count_assign(obj, count) ==
    LET n == count
    IN  [obj EXCEPT !.num_inferences = n,
                    !.average_latency =
                        IF n # 0 THEN RatDivInt(obj.total_inference_time, n) ELSE Zero]

\* mutant: the average is taken over the count of this call
update_inference_count_per_call(obj, count) ==
    [obj EXCEPT !.num_inferences = @ + count,
                !.average_latency =
                    IF count # 0 THEN RatDivInt(obj.total_inference_time, count) ELSE Zero]

update_inference_count(obj, count) ==
    LET n == obj.num_inferences + count
    IN  [obj EXCEPT !.num_inferences = n,
                    !.average_latency =
                        IF n # 0 THEN RatDivInt(obj.total_inference_time, n) ELSE Zero]

(* -------------------------------- state -------------------------------- *)

NoImages == [list |-> TRUE, val |-> <<>>]

Call(op) == [op |-> op, dtype |-> "", count |-> 0, images |-> NoImages]

Init ==
    /\ self = NoInstance
    /\ now = 0
    /\ frames = <<>>
    /\ result = Returned(<<>>)
    /\ accessed = <<>>
    /\ call = Call("none")
    /\ callPc = "idle"
    /\ sumCounts = 0
    /\ sumElapsed = 0

Counts == (-MaxCount) .. MaxCount

PositiveCounts == 1 .. MaxCount

\* BaseModel.__init__("m1", "cpu", dtype)
Construct(dtype) ==
    /\ self = NoInstance
    /\ LET r == BaseModel_init("m1", "cpu", dtype)
       IN  /\ self' = r.self
           /\ result' = r.result
    /\ call' = [Call("__init__") EXCEPT !.dtype = dtype]
    /\ UNCHANGED <<now, frames, accessed, sumCounts, sumElapsed>>

\* wall-clock time passes
Tick ==
    /\ now < MaxClock
    /\ now' = now + 1
    /\ call' = Call("clock")
    /\ UNCHANGED <<self, frames, result, accessed, sumCounts, sumElapsed>>

\* with self.track_inference_time(): runs up to the yield
TrackEnter ==
    /\ self.constructed
    /\ Len(frames) < MaxDepth
    /\ frames' = Append(frames, [start_time |-> perf_counter, raised |-> FALSE, entered |-> now])
    /\ result' = Returned(<<>>)
    /\ call' = Call("track_enter")
    /\ UNCHANGED <<self, now, accessed, sumCounts, sumElapsed>>

\* the body of the innermost open region raises
BodyRaises ==
    /\ frames # <<>>
    /\ ~frames[Len(frames)].raised
    /\ frames' = [frames EXCEPT ![Len(frames)].raised = TRUE]
    /\ call' = Call("body_raise")
    /\ UNCHANGED <<self, now, result, accessed, sumCounts, sumElapsed>>

\* the innermost open region is left: the finally block runs
TrackExit ==
    /\ frames # <<>>
    /\ LET f == frames[Len(frames)]
           r == track_inference_time(self, f.start_time, perf_counter, f.raised)
       IN  /\ self' = r.self
           /\ result' = IF r.raises THEN Raised("BodyError") ELSE Returned(<<>>)
           /\ sumElapsed' = sumElapsed + (now - f.entered)
    /\ frames' = SubSeq(frames, 1, Len(frames) - 1)
    /\ call' = Call("track_exit")
    /\ UNCHANGED <<now, accessed, sumCounts>>

UpdateInferenceCount(count) ==
    /\ self.constructed
    /\ Abs(self.num_inferences + count) <= MaxInferences
    /\ self' = update_inference_count(self, count)
    /\ result' = Returned(<<>>)
    /\ sumCounts' = sumCounts + count
    /\ call' = [Call("update_inference_count") EXCEPT !.count = count]
    /\ UNCHANGED <<now, frames, accessed, sumElapsed>>

Next ==
    \/ \E d \in DtypeStrings : Construct(d) /\ UNCHANGED callPc
    \/ Tick /\ UNCHANGED callPc
    \/ TrackEnter /\ UNCHANGED callPc
    \/ BodyRaises /\ UNCHANGED callPc
    \/ TrackExit /\ UNCHANGED callPc
    \/ \E c \in Counts : UpdateInferenceCount(c) /\ UNCHANGED callPc

Spec == Init /\ [][Next]_vars

\* the same calls, with the counts the documentation allows (positive ones)
NextPositive ==
    \/ \E d \in DtypeStrings : Construct(d) /\ UNCHANGED callPc
    \/ Tick /\ UNCHANGED callPc
    \/ TrackEnter /\ UNCHANGED callPc
    \/ BodyRaises /\ UNCHANGED callPc
    \/ TrackExit /\ UNCHANGED callPc
    \/ \E c \in PositiveCounts : UpdateInferenceCount(c) /\ UNCHANGED callPc

SpecPositive == Init /\ [][NextPositive]_vars

\* a caller that makes every inference call one timed region followed by one
\* update_inference_count with a positive count
NextProtocol ==
    \/ \E d \in DtypeStrings : Construct(d) /\ UNCHANGED callPc
    \/ Tick /\ UNCHANGED callPc
    \/ callPc = "idle" /\ TrackEnter /\ callPc' = "timing"
    \/ BodyRaises /\ UNCHANGED callPc
    \/ callPc = "timing" /\ TrackExit /\ callPc' = "timed"
    \/ callPc = "timed" /\ (\E c \in PositiveCounts : UpdateInferenceCount(c)) /\ callPc' = "idle"

SpecProtocol == Init /\ [][NextProtocol]_vars

(* ----------------------------- parse_images ---------------------------- *)

\* what the network and the file system hold
Web == [n \in {"a.png", "b.jpg", "down"} |->
           CASE n = "a.png" -> "image" [] n = "b.jpg" -> "image" [] n = "down" -> "unreachable"]

Disk == [n \in {"a.jpg", "missing/file.png", "corrupt.jpg"} |->
           CASE n = "a.jpg" -> "image" [] n = "missing/file.png" -> "missing"
             [] n = "corrupt.jpg" -> "corrupt"]

Str(scheme, name) == [kind |-> "str", scheme |-> scheme, name |-> name]

\* the values offered as elements: strings (URLs and paths) and one integer
Elements ==
    { Str("http://", "a.png"), Str("https://", "b.jpg"), Str("http://", "down"),
      Str("", "a.jpg"), Str("", "missing/file.png"), Str("", "corrupt.jpg"),
      [kind |-> "int", scheme |-> "", name |-> "123"] }

\* Image.open(...).convert("RGB") of a readable image
RGB(e) == [source |-> e, mode |-> "RGB"]

\* one reference: the image, or the exception that leaves parse_images
LoadImage(image_path) ==
    IF image_path.scheme \in {"http://", "https://"}
    THEN CASE Web[image_path.name] = "image" -> [exc |-> "", image |-> RGB(image_path)]
           [] Web[image_path.name] = "unreachable" -> [exc |-> "ConnectionError", image |-> <<>>]
    ELSE CASE Disk[image_path.name] = "image" -> [exc |-> "", image |-> RGB(image_path)]
           [] Disk[image_path.name] = "missing" -> [exc |-> "ValueError", image |-> <<>>]
           [] Disk[image_path.name] = "corrupt" -> [exc |-> "UnidentifiedImageError", image |-> <<>>]

\* mutant: a lone reference is not wrapped into a list
Normalize_no_wrap(images) == IF images.list THEN images.val ELSE <<>>

\* if not isinstance(images, list): images = [images]
Normalize(images) == IF images.list THEN images.val ELSE <<images.val>>

\* mutant: an element that is not a string is skipped
RECURSIVE ParseLoop_skip_non_str(_, _, _, _)
ParseLoop_skip_non_str(images, i, parsed_images, opened) ==
    IF i > Len(images)
    THEN [result |-> Returned(parsed_images), accessed |-> opened]
    ELSE LET image_path == images[i]
         IN  IF image_path.kind # "str"
             THEN ParseLoop_skip_non_str(images, i + 1, parsed_images, opened)
             ELSE LET l == LoadImage(image_path)
                  IN  IF l.exc # ""
                      THEN [result |-> Raised(l.exc), accessed |-> Append(opened, image_path)]
                      ELSE ParseLoop_skip_non_str(images, i + 1, Append(parsed_images, l.image),
                                                  Append(opened, image_path))

\* mutant: insert(0, image) instead of append(image)
RECURSIVE ParseLoop_prepend(_, _, _, _)
ParseLoop_prepend(images, i, parsed_images, opened) ==
    IF i > Len(images)
    THEN [result |-> Returned(parsed_images), accessed |-> opened]
    ELSE LET image_path == images[i]
         IN  IF image_path.kind # "str"
             THEN [result |-> Raised("ValueError"), accessed |-> opened]
             ELSE LET l == LoadImage(image_path)
                  IN  IF l.exc # ""
                      THEN [result |-> Raised(l.exc), accessed |-> Append(opened, image_path)]
                      ELSE ParseLoop_prepend(images, i + 1, <<l.image>> \o parsed_images,
                                             Append(opened, image_path))

\* the for loop, from element i on
RECURSIVE ParseLoop(_, _, _, _)
ParseLoop(images, i, parsed_images, opened) ==
    IF i > Len(images)
    THEN [result |-> Returned(parsed_images), accessed |-> opened]
    ELSE LET image_path == images[i]
         IN  IF image_path.kind # "str"
             THEN [result |-> Raised("ValueError"), accessed |-> opened]
             ELSE LET l == LoadImage(image_path)
                  IN  IF l.exc # ""
                      THEN [result |-> Raised(l.exc), accessed |-> Append(opened, image_path)]
                      ELSE ParseLoop(images, i + 1, Append(parsed_images, l.image),
                                     Append(opened, image_path))

parse_images(images) == ParseLoop(Normalize(images), 1, <<>>, <<>>)

RECURSIVE SeqsUpTo(_)
SeqsUpTo(n) ==
    IF n = 0 THEN {<<>>}
    ELSE LET shorter == SeqsUpTo(n - 1)
         IN  shorter \cup {Append(q, e) : q \in {x \in shorter : Len(x) = n - 1}, e \in Elements}

\* the arguments offered to parse_images: one element, or a list of them
ImageInputs ==
    {[list |-> FALSE, val |-> e] : e \in Elements}
        \cup {[list |-> TRUE, val |-> q] : q \in SeqsUpTo(MaxLen)}

ParseImages(images) ==
    /\ self.constructed
    /\ LET r == parse_images(images)
       IN  /\ result' = r.result
           /\ accessed' = r.accessed
    /\ call' = [Call("parse_images") EXCEPT !.images = images]
    /\ UNCHANGED <<self, now, frames, callPc, sumCounts, sumElapsed>>

NextParse ==
    \/ \E d \in DtypeStrings : Construct(d) /\ UNCHANGED <<callPc, accessed>>
    \/ \E images \in ImageInputs : ParseImages(images)

SpecParse == Init /\ [][NextParse]_vars

(* ------------------------------- claims -------------------------------- *)

Supported == {"float32", "float16", "bfloat16"}

RegionOps == {"track_enter", "body_raise", "track_exit"}

\* total_inference_time / num_inferences, or 0.0 while nothing was counted
Consistent(obj) ==
    obj.average_latency =
        IF obj.num_inferences # 0
        THEN RatDivInt(obj.total_inference_time, obj.num_inferences)
        ELSE Zero

\* milliseconds between tick t0 and tick t1
Millis(t0, t1) == Rat((t1 - t0) * 1000, TicksPerSecond)

\* C1 as stated: after every step that changes num_inferences or
\* total_inference_time, average_latency is total_inference_time / num_inferences
\* (0.0 when num_inferences is 0).
C1_AverageNeverStale ==
    [][(/\ self.constructed
        /\ self'.constructed
        /\ \/ self'.num_inferences # self.num_inferences
           \/ self'.total_inference_time # self.total_inference_time)
       => Consistent(self')]_vars

\* C1 amended: average_latency is recomputed by update_inference_count only.  After
\* every update_inference_count it equals total_inference_time / num_inferences
\* (0.0 when num_inferences is 0); a timed region changes total_inference_time and
\* leaves average_latency as it was.
C1_AverageFreshAfterUpdate ==
    [][/\ call'.op = "update_inference_count" => Consistent(self')
       /\ call'.op \in RegionOps => self'.average_latency = self.average_latency]_vars

\* C1 witness: a region has just closed and the stored average is behind the accumulators
C1_Witness ==
    /\ call.op = "track_exit"
    /\ self.num_inferences > 0
    /\ self.total_inference_time = Rat(30, 1)
    /\ self.average_latency = Rat(10, 1)
    /\ ~Consistent(self)

\* C2: update_inference_count(c) from total_inference_time = T, num_inferences = n
\* gives num_inferences = n + c, average_latency = T / (n + c) (0.0 when n + c = 0)
\* and leaves total_inference_time = T.
C2_UpdateInferenceCount ==
    [][call'.op = "update_inference_count" =>
        LET n == self.num_inferences
            T == self.total_inference_time
            c == call'.count
        IN  /\ self'.num_inferences = n + c
            /\ self'.total_inference_time = T
            /\ self'.average_latency = IF n + c = 0 THEN Zero ELSE Rat(T[1], T[2] * (n + c))]_vars

\* C2 witness: 20 ms accumulated, the count reaches 3, the average is 20/3 ms
C2_Witness ==
    /\ call.op = "update_inference_count"
    /\ call.count = 2
    /\ self.num_inferences = 3
    /\ self.total_inference_time = Rat(20, 1)
    /\ self.average_latency = Rat(20, 3)

\* C3: every exit from the timed region, normal or by an exception, adds the
\* elapsed time (never negative) to total_inference_time once, and an exception
\* of the body still reaches the caller; no other step changes the total.
C3_RegionAlwaysRecords ==
    [][/\ (call'.op = "track_exit" /\ Len(frames') < Len(frames)) =>
            LET f == frames[Len(frames)]
                elapsed == Millis(f.entered, now)
            IN  /\ RatLeq(Zero, elapsed)
                /\ self'.total_inference_time = RatAdd(self.total_inference_time, elapsed)
                /\ RatLeq(self.total_inference_time, self'.total_inference_time)
                /\ f.raised => result'.outcome = "BodyError"
                /\ ~f.raised => result'.outcome = "returned"
       /\ (/\ self.constructed
           /\ self'.constructed
           /\ self'.total_inference_time # self.total_inference_time)
            => call'.op = "track_exit"]_vars

\* C3 witness: a region whose body raised after 10 ms has been left
C3_Witness ==
    /\ call.op = "track_exit"
    /\ result.outcome = "BodyError"
    /\ self.total_inference_time = Rat(10, 1)
    /\ sumElapsed = 1

\* C4: construction succeeds exactly for "float32", "float16", "bfloat16"; it then
\* stores the mapped dtype and zeroed statistics; any other string raises
\* ValueError and the caller gets no instance.
C4_Construction ==
    [][call'.op = "__init__" =>
        /\ self'.constructed <=> call'.dtype \in Supported
        /\ self'.constructed =>
              /\ self'.dtype = dtype_map[call'.dtype]
              /\ self'.dtype # call'.dtype
              /\ self'.num_inferences = 0
              /\ self'.total_inference_time = Zero
              /\ self'.average_latency = Zero
              /\ result'.outcome = "returned"
        /\ ~self'.constructed =>
              /\ self' = NoInstance
              /\ result'.outcome = "ValueError"]_vars

\* C4 witness: an instance built from "bfloat16"
C4_Witness ==
    /\ call.op = "__init__"
    /\ call.dtype = "bfloat16"
    /\ self.constructed
    /\ self.dtype = "torch.bfloat16"

\* C5: entering, running and leaving a timed region never changes num_inferences
\* (of the instance only total_inference_time may change), and num_inferences
\* changes through update_inference_count only.
C5_RegionLeavesCount ==
    [][/\ call'.op \in RegionOps =>
            /\ self'.num_inferences = self.num_inferences
            /\ self' = [self EXCEPT !.total_inference_time = self'.total_inference_time]
       /\ (/\ self.constructed
           /\ self'.constructed
           /\ self'.num_inferences # self.num_inferences)
            => call'.op = "update_inference_count"]_vars

\* C5 witness: a region that raised has closed on an instance with 2 inferences counted
C5_Witness ==
    /\ call.op = "track_exit"
    /\ result.outcome = "BodyError"
    /\ self.num_inferences = 2
    /\ self.total_inference_time = Rat(20, 1)

\* C9: when every call is one timed region followed by one update_inference_count
\* with a positive count, then after each completed call num_inferences is the sum
\* of the counts, total_inference_time the sum of the elapsed times and
\* average_latency their quotient.
C9_ProtocolTotals ==
    (self.constructed /\ callPc = "idle") =>
        /\ self.num_inferences = sumCounts
        /\ self.total_inference_time = Millis(0, sumElapsed)
        /\ self.average_latency =
              IF sumCounts = 0 THEN Zero ELSE Rat(sumElapsed * 1000, TicksPerSecond * sumCounts)

\* C9 witness: float16 instance, one region of 10 ms, then update_inference_count(2)
C9_Witness ==
    /\ callPc = "idle"
    /\ call.op = "update_inference_count"
    /\ call.count = 2
    /\ self.dtype = "torch.float16"
    /\ self.num_inferences = 2
    /\ self.total_inference_time = Rat(10, 1)
    /\ self.average_latency = Rat(5, 1)

\* C10: with positive counts, num_inferences and total_inference_time are never
\* negative, both are 0 on construction, and no step decreases either.
C10_NonNegativeMonotone ==
    /\ [](self.constructed =>
            /\ self.num_inferences >= 0
            /\ RatLeq(Zero, self.total_inference_time))
    /\ [][/\ (~self.constructed /\ self'.constructed) =>
               /\ self'.num_inferences = 0
               /\ self'.total_inference_time = Zero
          /\ (self.constructed /\ self'.constructed) =>
               /\ self'.num_inferences >= self.num_inferences
               /\ RatLeq(self.total_inference_time, self'.total_inference_time)]_vars

\* C10 witness: both accumulators have grown
C10_Witness ==
    /\ self.constructed
    /\ self.num_inferences = 3
    /\ self.total_inference_time = Rat(40, 1)

\* the argument of the last parse_images call, as the sequence it stands for
Items == IF call.images.list THEN call.images.val ELSE <<call.images.val>>

IsUrl(e) == e.scheme = "http://" \/ e.scheme = "https://"

\* a string whose image can be fetched or read, and decoded
Loads(e) ==
    /\ e.kind = "str"
    /\ IF IsUrl(e) THEN Web[e.name] = "image" ELSE Disk[e.name] = "image"

\* the error an element that does not load ends the call with
ErrorOf(e) ==
    IF e.kind # "str" THEN "ValueError"
    ELSE IF IsUrl(e) THEN "ConnectionError"
    ELSE IF Disk[e.name] = "missing" THEN "ValueError"
    ELSE "UnidentifiedImageError"

\* C6 as stated: parse_images raises ValueError whenever some element is not a
\* string, wherever it stands and whatever the other elements are.
C6_NonStringAlwaysValueError ==
    (call.op = "parse_images" /\ \E i \in 1 .. Len(Items) : Items[i].kind # "str")
        => result.outcome = "ValueError"

\* C6 amended: elements are checked and loaded one at a time in input order.  An
\* input with an element that is not a string always fails, and it fails with the
\* error of the first element that is not a string or does not load: ValueError
\* when every element before the non-string one loaded (nothing after it is
\* opened), otherwise the earlier element's own error.
C6_FirstFailureDecides ==
    call.op = "parse_images" =>
        \A i \in 1 .. Len(Items) :
            (Items[i].kind # "str" /\ \A j \in 1 .. i - 1 : Items[j].kind = "str") =>
                LET bad == {j \in 1 .. i : ~Loads(Items[j])}
                    first == CHOOSE j \in bad : \A k \in bad : j <= k
                IN  /\ result.outcome # "returned"
                    /\ result.outcome = ErrorOf(Items[first])
                    /\ first = i => result.outcome = "ValueError"
                    /\ first = i => accessed = SubSeq(Items, 1, i - 1)
                    /\ first < i => accessed = SubSeq(Items, 1, first)

\* C6 witness: ["a.jpg", 123] raised ValueError after a.jpg had been read
C6_Witness ==
    /\ call.op = "parse_images"
    /\ call.images = [list |-> TRUE,
                      val |-> <<Str("", "a.jpg"), [kind |-> "int", scheme |-> "", name |-> "123"]>>]
    /\ result.outcome = "ValueError"
    /\ accessed = <<Str("", "a.jpg")>>

\* C7: when every reference of the input loads, parse_images returns as many images
\* as references, the i-th decoded from the i-th reference, URLs and paths alike,
\* and the references are opened one at a time in input order.
C7_SameLengthSameOrder ==
    (call.op = "parse_images" /\ \A i \in 1 .. Len(Items) : Loads(Items[i])) =>
        /\ result.outcome = "returned"
        /\ Len(result.value) = Len(Items)
        /\ \A i \in 1 .. Len(Items) :
              /\ result.value[i].source = Items[i]
              /\ result.value[i].mode = "RGB"
        /\ accessed = Items

\* C7 witness: a URL followed by a local path came back as two images in that order
C7_Witness ==
    /\ call.op = "parse_images"
    /\ call.images = [list |-> TRUE, val |-> <<Str("https://", "b.jpg"), Str("", "a.jpg")>>]
    /\ result = Returned(<<RGB(Str("https://", "b.jpg")), RGB(Str("", "a.jpg"))>>)

\* C8: parse_images(s) and parse_images([s]) end the same way for every reference
\* s: with the one-element sequence holding the image of s, or with the same error.
C8_SingleEqualsSingleton ==
    call.op = "parse_images" =>
        /\ (~call.images.list /\ call.images.val.kind = "str") =>
              LET s == call.images.val
                  other == parse_images([list |-> TRUE, val |-> <<s>>])
              IN  /\ result = other.result
                  /\ accessed = other.accessed
                  /\ result = IF Loads(s) THEN Returned(<<RGB(s)>>) ELSE Raised(ErrorOf(s))
        /\ (call.images.list /\ Len(call.images.val) = 1) =>
              LET s == call.images.val[1]
                  other == parse_images([list |-> FALSE, val |-> s])
              IN  /\ result = other.result
                  /\ accessed = other.accessed

\* C8 witness: parse_images("a.jpg") returned one image
C8_Witness ==
    /\ call.op = "parse_images"
    /\ call.images = [list |-> FALSE, val |-> Str("", "a.jpg")]
    /\ result = Returned(<<RGB(Str("", "a.jpg"))>>)
====
